---- MODULE Spec2Model ----
(***************************************************************************)
(* Model of the calendar CLI (src/main.rs): the Schedule/Calendar data     *)
(* model, Schedule::intersects, add_schedule, delete_schedule, the         *)
(* repository functions on schedules.json and the command handlers of      *)
(* main.                                                                   *)
(*                                                                         *)
(* An instant (NaiveDateTime) is a natural number: naive_date_time(d, t)   *)
(* is instant d * TodsPerDay + t, so the order of instants is the order of *)
(* (date, time of day) pairs, as chrono orders NaiveDateTime.              *)
(***************************************************************************)
EXTENDS Integers, Sequences, FiniteSets, TLC

VARIABLES
    entry,      \* how the program is entered: "intersects" / "calendar" (the
                \* library functions called directly, as the tests do), "main"
                \* (invocations one after another) or "concurrent"
    calendar,   \* the in-memory Calendar the library functions act on
    last,       \* the last library call: its arguments, the Calendar before it, its result
    scenario,   \* progress through add, add, delete 0, add from the empty Calendar
    file,       \* schedules.json
    pc,         \* per process: where the invocation of main stands
    cmd,        \* per process: the parsed Commands value
    mem,        \* per process: main's local `calendar`
    ret,        \* per process: what add_schedule / delete_schedule returned
    loaded,     \* per process: whether read_calendar returned Ok, and the Calendar it returned
    out,        \* per process: the messages printed
    rows,       \* per process: the rows show_schedule printed
    file0,      \* per process: schedules.json when the invocation started
    fault,      \* per process: whether an IO operation of the invocation failed
    writer      \* the process whose write reached schedules.json last (0: none)

vars == <<entry, calendar, last, scenario, file, pc, cmd, mem, ret, loaded,
          out, rows, file0, fault, writer>>

libVars == <<calendar, last, scenario>>
mainVars == <<file, pc, cmd, mem, ret, loaded, out, rows, file0, fault, writer>>

----------------------------------------------------------------------------
(* Bounds *)

\* days and times of day of the instants Schedule::intersects is probed with
NumDays == 2
TodsPerDay == 2
\* instants 0..MaxTime are the start and end arguments of add
MaxTime == 2
\* a Calendar (in memory or in the file) holds at most MaxLen schedules
MaxLen == 2

\* the subjects given on the command line
Subjects == {"Meeting", "Lunch"}
\* the subject given when add_schedule is called directly
LibSubjects == {"Meeting"}
ProbeTimes == 0 .. (NumDays * TodsPerDay - 1)
Days == 0 .. (NumDays - 1)
Tods == 0 .. (TodsPerDay - 1)
Times == 0 .. MaxTime
Ids == 0 .. MaxLen
Procs == {1, 2}

----------------------------------------------------------------------------
(* Data model *)

\* struct Schedule
Schedule(id, subject, start, end) ==
    [id |-> id, subject |-> subject, start |-> start, end |-> end]

\* struct Calendar
Calendar(schedules) == [schedules |-> schedules]

\* Calendar { schedules: vec![] }
EmptyCalendar == Calendar(<<>>)

\* tests::naive_date_time: the instant of a date and a time of day
naive_date_time(day, tod) == day * TodsPerDay + tod

DateOf(t) == t \div TodsPerDay

----------------------------------------------------------------------------
(* Schedule::intersects *)

\* a plausible slip: inclusive comparisons, so that touching intervals intersect
intersects_inclusive(self, other) ==
    self.start <= other.end /\ other.start <= self.end

intersects(self, other) ==
    self.start < other.end /\ other.start < self.end

----------------------------------------------------------------------------
(* add_schedule *)

\* the for loop of add_schedule: the index of the first schedule that
\* intersects new_schedule, 0 when the loop ends without one
RECURSIVE FirstConflict(_, _, _)
FirstConflict(schedules, new_schedule, i) ==
    IF i > Len(schedules) THEN 0
    ELSE IF intersects(schedules[i], new_schedule) THEN i
    ELSE FirstConflict(schedules, new_schedule, i + 1)

\* a plausible slip: the id is one past the length
add_schedule_id_off(cal, subject, start, end) ==
    LET new_schedule == Schedule(Len(cal.schedules) + 1, subject, start, end)
    IN  IF FirstConflict(cal.schedules, new_schedule, 1) # 0
        THEN [calendar |-> cal, ret |-> FALSE]
        ELSE [calendar |-> Calendar(Append(cal.schedules, new_schedule)), ret |-> TRUE]

\* a plausible slip: the push happens before the scan
add_schedule_push_first(cal, subject, start, end) ==
    LET new_schedule == Schedule(Len(cal.schedules), subject, start, end)
        pushed == Calendar(Append(cal.schedules, new_schedule))
    IN  [calendar |-> pushed,
         ret |-> FirstConflict(cal.schedules, new_schedule, 1) = 0]

\* a plausible slip: the scan starts one schedule too late
add_schedule_skip_first(cal, subject, start, end) ==
    LET new_schedule == Schedule(Len(cal.schedules), subject, start, end)
    IN  IF FirstConflict(cal.schedules, new_schedule, 2) # 0
        THEN [calendar |-> cal, ret |-> FALSE]
        ELSE [calendar |-> Calendar(Append(cal.schedules, new_schedule)), ret |-> TRUE]

RECURSIVE MaxIdOf(_)
MaxIdOf(schedules) ==
    IF schedules = <<>> THEN 0
    ELSE LET m == MaxIdOf(Tail(schedules))
         IN  IF Head(schedules).id + 1 > m THEN Head(schedules).id + 1 ELSE m

\* not the code: ids that are never reused (one past the largest id in use)
add_schedule_fresh_id(cal, subject, start, end) ==
    LET new_schedule == Schedule(MaxIdOf(cal.schedules), subject, start, end)
    IN  IF FirstConflict(cal.schedules, new_schedule, 1) # 0
        THEN [calendar |-> cal, ret |-> FALSE]
        ELSE [calendar |-> Calendar(Append(cal.schedules, new_schedule)), ret |-> TRUE]

\* a plausible slip: true is returned without the push
add_schedule_no_push(cal, subject, start, end) ==
    LET new_schedule == Schedule(Len(cal.schedules), subject, start, end)
    IN  [calendar |-> cal, ret |-> FirstConflict(cal.schedules, new_schedule, 1) = 0]

\* the Calendar after the call and the value returned
add_schedule(cal, subject, start, end) ==
    LET id == Len(cal.schedules)
        new_schedule == Schedule(id, subject, start, end)
    IN  IF FirstConflict(cal.schedules, new_schedule, 1) # 0
        THEN [calendar |-> cal, ret |-> FALSE]
        ELSE [calendar |-> Calendar(Append(cal.schedules, new_schedule)), ret |-> TRUE]

----------------------------------------------------------------------------
(* delete_schedule *)

\* the for loop of delete_schedule: the first index whose schedule has the id,
\* 0 when the loop ends without one
RECURSIVE FirstWithId(_, _, _)
FirstWithId(schedules, id, i) ==
    IF i > Len(schedules) THEN 0
    ELSE IF schedules[i].id = id THEN i
    ELSE FirstWithId(schedules, id, i + 1)

\* Vec::remove(i), with i counted from 1
Remove(schedules, i) ==
    SubSeq(schedules, 1, i - 1) \o SubSeq(schedules, i + 1, Len(schedules))

\* a plausible slip: every schedule with the id is removed (a retain)
delete_schedule_all(cal, id) ==
    LET keep == SelectSeq(cal.schedules, LAMBDA s : s.id # id)
    IN  [calendar |-> Calendar(keep), ret |-> Len(keep) < Len(cal.schedules)]

\* the Calendar after the call and the value returned
delete_schedule(cal, id) ==
    LET i == FirstWithId(cal.schedules, id, 1)
    IN  IF i # 0
        THEN [calendar |-> Calendar(Remove(cal.schedules, i)), ret |-> TRUE]
        ELSE [calendar |-> cal, ret |-> FALSE]

----------------------------------------------------------------------------
(* The library functions called directly *)

NoSchedule == Schedule(0, "", 0, 0)

NoCall ==
    [op |-> "none", pre |-> EmptyCalendar, a |-> NoSchedule, b |-> NoSchedule,
     id |-> 0, ret |-> FALSE]

\* scenario: the number of steps of add, add, delete 0, add (each returning
\* true, from the empty Calendar) made so far; -1 once the calls leave it
NextScenario(op, id, ok) ==
    IF ok /\ op = "add" /\ scenario \in {0, 1, 3} THEN scenario + 1
    ELSE IF ok /\ op = "delete" /\ id = 0 /\ scenario = 2 THEN 3
    ELSE -1

\* existing_schedule.intersects(&new_schedule), as a test calls it: once, on
\* two schedules it builds
CallIntersects(d0, t0, d1, t1, d2, t2, d3, t3) ==
    /\ entry = "intersects"
    /\ last.op = "none"
    /\ LET a == Schedule(1, "existing", naive_date_time(d0, t0), naive_date_time(d1, t1))
           b == Schedule(999, "new", naive_date_time(d2, t2), naive_date_time(d3, t3))
       IN  last' = [op |-> "intersects", pre |-> EmptyCalendar, a |-> a, b |-> b,
                    id |-> 0, ret |-> intersects(a, b)]
    /\ UNCHANGED <<entry, calendar, scenario>>
    /\ UNCHANGED mainVars

CallAdd(subject, start, end) ==
    /\ entry = "calendar"
    /\ LET r == add_schedule(calendar, subject, start, end)
       IN  /\ Len(r.calendar.schedules) <= MaxLen
           /\ calendar' = r.calendar
           /\ last' = [op |-> "add", pre |-> calendar,
                       a |-> Schedule(0, subject, start, end), b |-> NoSchedule,
                       id |-> 0, ret |-> r.ret]
           /\ scenario' = NextScenario("add", 0, r.ret)
    /\ UNCHANGED entry
    /\ UNCHANGED mainVars

CallDelete(id) ==
    /\ entry = "calendar"
    /\ LET r == delete_schedule(calendar, id)
       IN  /\ calendar' = r.calendar
           /\ last' = [op |-> "delete", pre |-> calendar, a |-> NoSchedule,
                       b |-> NoSchedule, id |-> id, ret |-> r.ret]
           /\ scenario' = NextScenario("delete", id, r.ret)
    /\ UNCHANGED entry
    /\ UNCHANGED mainVars

----------------------------------------------------------------------------
(* The repository: schedules.json *)

\* schedules.json: absent ("missing"), bytes that parse as a Calendar ("json",
\* with the schedules they hold) or bytes that do not ("malformed": the
\* zero bytes File::create leaves, or a garbled document); size in bytes
NoFile == [state |-> "missing", schedules |-> <<>>, size |-> 0]

\* File::create(SCHEDULE_FILE) succeeded: the file exists and is truncated
Truncated == [state |-> "malformed", schedules |-> <<>>, size |-> 0]

\* the bytes of a subject
SubjectLen(subject) == IF subject = "Meeting" THEN 7 ELSE 5

\* the bytes of the serialized schedules: each is
\* {"id":N,"subject":"...","start":"YYYY-MM-DDTHH:MM:SS","end":"..."} with a
\* one-digit id, 79 bytes and the subject, and commas separate them
RECURSIVE SchedulesSize(_)
SchedulesSize(schedules) ==
    IF schedules = <<>> THEN 0
    ELSE 79 + SubjectLen(Head(schedules).subject)
         + (IF Tail(schedules) = <<>> THEN 0 ELSE 1)
         + SchedulesSize(Tail(schedules))

\* serde_json::to_writer(writer, calendar): the document written,
\* {"schedules":[...]}
to_writer(cal) ==
    [state |-> "json", schedules |-> cal.schedules,
     size |-> 16 + SchedulesSize(cal.schedules)]

\* the file after a process writes doc from offset 0 through the handle its
\* File::create returned: bytes another process wrote since then, beyond the
\* end of doc, stay in the file
Written(f, doc) ==
    IF f.size > doc.size
    THEN [state |-> "malformed", schedules |-> <<>>, size |-> f.size]
    ELSE doc

\* read_calendar: Ok(calendar), Err(MyError::Io) when File::open fails, and a
\* panic when from_reader's Err is unwrapped
read_calendar(f, open_fails) ==
    IF f.state = "missing" \/ open_fails
    THEN [kind |-> "Err", calendar |-> EmptyCalendar]
    ELSE IF f.state = "json"
    THEN [kind |-> "Ok", calendar |-> Calendar(f.schedules)]
    ELSE [kind |-> "panic", calendar |-> EmptyCalendar]

\* schedule.start.format("%Y-%m-%d %H:%M"): the date and the time of day
format(t) == <<DateOf(t), t % TodsPerDay>>

\* show_schedule: the rows printed after the header
show_schedule(cal) ==
    [i \in 1 .. Len(cal.schedules) |->
        LET schedule == cal.schedules[i]
        IN  <<schedule.id, format(schedule.start), format(schedule.end),
              schedule.subject>>]

----------------------------------------------------------------------------
(* main: one invocation per process, one step per file operation *)

NoCmd == [op |-> "none", subject |-> "", start |-> 0, end |-> 0, id |-> 0]

NotLoaded == [ok |-> FALSE, calendar |-> EmptyCalendar]

\* the ranges given on the command line: two that touch, one that overlaps
\* both, one with start > end and one with start = end
CliRanges == {<<0, 1>>, <<1, 2>>, <<0, 2>>, <<2, 1>>, <<1, 1>>}

Commands ==
    {[op |-> "list", subject |-> "", start |-> 0, end |-> 0, id |-> 0]}
    \cup {[op |-> "add", subject |-> s, start |-> r[1], end |-> r[2], id |-> 0] :
             s \in Subjects, r \in CliRanges}
    \cup {[op |-> "delete", subject |-> "", start |-> 0, end |-> 0, id |-> i] :
             i \in Ids}

Running(p) == pc[p] \notin {"idle", "done", "panicked"}

\* Cli::parse(): a new invocation. Under "main" invocations follow one another;
\* under "concurrent" each of two processes runs one invocation, and the two
\* may run at the same time.
Start(p, c) ==
    /\ entry \in {"main", "concurrent"}
    /\ ~Running(p)
    /\ entry = "main" => p = 1
    /\ entry = "concurrent" => pc[p] = "idle"
    /\ c.op = "add" => Len(file.schedules) < MaxLen
    /\ pc' = [pc EXCEPT ![p] = "read"]
    /\ cmd' = [cmd EXCEPT ![p] = c]
    /\ mem' = [mem EXCEPT ![p] = EmptyCalendar]
    /\ ret' = [ret EXCEPT ![p] = FALSE]
    /\ loaded' = [loaded EXCEPT ![p] = NotLoaded]
    /\ out' = [out EXCEPT ![p] = <<>>]
    /\ rows' = [rows EXCEPT ![p] = <<>>]
    /\ file0' = [file0 EXCEPT ![p] = file]
    /\ fault' = [fault EXCEPT ![p] = FALSE]
    /\ UNCHANGED <<entry, file, writer>>
    /\ UNCHANGED libVars

\* Commands::List => match read_calendar()
ReadList(p, open_fails) ==
    /\ pc[p] = "read" /\ cmd[p].op = "list"
    /\ LET r == read_calendar(file, open_fails)
       IN  /\ pc' = [pc EXCEPT ![p] = IF r.kind = "panic" THEN "panicked" ELSE "done"]
           /\ loaded' = [loaded EXCEPT ![p] = [ok |-> r.kind = "Ok", calendar |-> r.calendar]]
           /\ mem' = [mem EXCEPT ![p] = r.calendar]
           /\ rows' = [rows EXCEPT ![p] =
                          IF r.kind = "Ok" THEN show_schedule(r.calendar) ELSE <<>>]
           /\ out' = [out EXCEPT ![p] =
                          IF r.kind = "Err" THEN <<"load_error">> ELSE <<>>]
    /\ fault' = [fault EXCEPT ![p] = open_fails]
    /\ UNCHANGED <<entry, file, cmd, ret, file0, writer>>
    /\ UNCHANGED libVars

\* a plausible slip: the Err arm of add reports the error, as list's does
ReadAdd_no_create(p, open_fails) ==
    /\ pc[p] = "read" /\ cmd[p].op = "add"
    /\ LET r == read_calendar(file, open_fails)
           a == add_schedule(r.calendar, cmd[p].subject, cmd[p].start, cmd[p].end)
       IN  /\ loaded' = [loaded EXCEPT ![p] = [ok |-> r.kind = "Ok", calendar |-> r.calendar]]
           /\ IF r.kind = "Ok"
              THEN /\ mem' = [mem EXCEPT ![p] = a.calendar]
                   /\ ret' = [ret EXCEPT ![p] = a.ret]
                   /\ pc' = [pc EXCEPT ![p] = IF a.ret THEN "save" ELSE "done"]
                   /\ out' = [out EXCEPT ![p] =
                                  IF a.ret THEN <<>> ELSE <<"add_rejected">>]
              ELSE /\ pc' = [pc EXCEPT ![p] =
                                 IF r.kind = "panic" THEN "panicked" ELSE "done"]
                   /\ out' = [out EXCEPT ![p] =
                                  IF r.kind = "Err" THEN <<"load_error">> ELSE <<>>]
                   /\ UNCHANGED <<mem, ret>>
    /\ fault' = [fault EXCEPT ![p] = open_fails]
    /\ UNCHANGED <<entry, file, cmd, rows, file0, writer>>
    /\ UNCHANGED libVars

\* a plausible slip: the calendar is saved whatever add_schedule returned
ReadAdd_always_save(p, open_fails) ==
    /\ pc[p] = "read" /\ cmd[p].op = "add"
    /\ LET r == read_calendar(file, open_fails)
           a == add_schedule(r.calendar, cmd[p].subject, cmd[p].start, cmd[p].end)
       IN  /\ loaded' = [loaded EXCEPT ![p] = [ok |-> r.kind = "Ok", calendar |-> r.calendar]]
           /\ IF r.kind = "Ok"
              THEN /\ mem' = [mem EXCEPT ![p] = a.calendar]
                   /\ ret' = [ret EXCEPT ![p] = a.ret]
                   /\ pc' = [pc EXCEPT ![p] = "save"]
                   /\ out' = out
              ELSE /\ pc' = [pc EXCEPT ![p] =
                                 IF r.kind = "panic" THEN "panicked" ELSE "create"]
                   /\ UNCHANGED <<mem, ret, out>>
    /\ fault' = [fault EXCEPT ![p] = open_fails]
    /\ UNCHANGED <<entry, file, cmd, rows, file0, writer>>
    /\ UNCHANGED libVars

\* Commands::Add => match read_calendar(): Ok runs add_schedule, Err goes on
\* to create_schedule_file
ReadAdd(p, open_fails) ==
    /\ pc[p] = "read" /\ cmd[p].op = "add"
    /\ LET r == read_calendar(file, open_fails)
           a == add_schedule(r.calendar, cmd[p].subject, cmd[p].start, cmd[p].end)
       IN  /\ loaded' = [loaded EXCEPT ![p] = [ok |-> r.kind = "Ok", calendar |-> r.calendar]]
           /\ IF r.kind = "Ok"
              THEN /\ mem' = [mem EXCEPT ![p] = a.calendar]
                   /\ ret' = [ret EXCEPT ![p] = a.ret]
                   /\ pc' = [pc EXCEPT ![p] = IF a.ret THEN "save" ELSE "done"]
                   /\ out' = [out EXCEPT ![p] =
                                  IF a.ret THEN <<>> ELSE <<"add_rejected">>]
              ELSE /\ pc' = [pc EXCEPT ![p] =
                                 IF r.kind = "panic" THEN "panicked" ELSE "create"]
                   /\ UNCHANGED <<mem, ret, out>>
    /\ fault' = [fault EXCEPT ![p] = open_fails]
    /\ UNCHANGED <<entry, file, cmd, rows, file0, writer>>
    /\ UNCHANGED libVars

\* Commands::Delete => match read_calendar()
ReadDelete(p, open_fails) ==
    /\ pc[p] = "read" /\ cmd[p].op = "delete"
    /\ LET r == read_calendar(file, open_fails)
           d == delete_schedule(r.calendar, cmd[p].id)
       IN  /\ loaded' = [loaded EXCEPT ![p] = [ok |-> r.kind = "Ok", calendar |-> r.calendar]]
           /\ IF r.kind = "Ok"
              THEN /\ mem' = [mem EXCEPT ![p] = d.calendar]
                   /\ ret' = [ret EXCEPT ![p] = d.ret]
                   /\ pc' = [pc EXCEPT ![p] = IF d.ret THEN "save" ELSE "done"]
                   /\ out' = [out EXCEPT ![p] =
                                  IF d.ret THEN <<>> ELSE <<"delete_failed">>]
              ELSE /\ pc' = [pc EXCEPT ![p] =
                                 IF r.kind = "panic" THEN "panicked" ELSE "done"]
                   /\ out' = [out EXCEPT ![p] =
                                  IF r.kind = "Err" THEN <<"load_error">> ELSE <<>>]
                   /\ UNCHANGED <<mem, ret>>
    /\ fault' = [fault EXCEPT ![p] = open_fails]
    /\ UNCHANGED <<entry, file, cmd, rows, file0, writer>>
    /\ UNCHANGED libVars

\* create_schedule_file, File::create: on Err main prints the creation error
CreateFile(p, create_fails) ==
    /\ pc[p] = "create"
    /\ IF create_fails
       THEN /\ pc' = [pc EXCEPT ![p] = "done"]
            /\ out' = [out EXCEPT ![p] = Append(@, "create_error")]
            /\ fault' = [fault EXCEPT ![p] = TRUE]
            /\ UNCHANGED file
       ELSE /\ pc' = [pc EXCEPT ![p] = "create_write"]
            /\ file' = Truncated
            /\ UNCHANGED <<out, fault>>
    /\ UNCHANGED <<entry, cmd, mem, ret, loaded, rows, file0, writer>>
    /\ UNCHANGED libVars

\* create_schedule_file, to_writer of the empty Calendar, then the Ok arm of
\* main: add_schedule on a new empty Calendar. to_writer fills the BufWriter
\* and returns Ok; the bytes reach the file when the BufWriter is dropped, and
\* a failure of that flush is reported to nobody (flushed = FALSE).
CreateWrite(p, flushed) ==
    /\ pc[p] = "create_write"
    /\ file' = IF flushed THEN Written(file, to_writer(EmptyCalendar)) ELSE file
    /\ writer' = IF flushed THEN p ELSE writer
    /\ fault' = [fault EXCEPT ![p] = @ \/ ~flushed]
    /\ LET a == add_schedule(EmptyCalendar, cmd[p].subject, cmd[p].start, cmd[p].end)
       IN  /\ mem' = [mem EXCEPT ![p] = a.calendar]
           /\ ret' = [ret EXCEPT ![p] = a.ret]
           /\ pc' = [pc EXCEPT ![p] = IF a.ret THEN "save" ELSE "done"]
           /\ out' = [out EXCEPT ![p] =
                          IF a.ret THEN Append(@, "created")
                          ELSE @ \o <<"created", "add_rejected">>]
    /\ UNCHANGED <<entry, cmd, loaded, rows, file0>>
    /\ UNCHANGED libVars

\* what main prints after save_calendar returned; the delete arm prints that
\* the schedule was deleted whatever save_calendar returned
AfterSave(p, saved) ==
    <<IF saved THEN "saved" ELSE "save_failed">>
    \o (IF cmd[p].op = "delete" THEN <<"deleted">> ELSE <<>>)

\* save_calendar, File::create
SaveCreate(p, create_fails) ==
    /\ pc[p] = "save"
    /\ IF create_fails
       THEN /\ pc' = [pc EXCEPT ![p] = "done"]
            /\ out' = [out EXCEPT ![p] = @ \o AfterSave(p, FALSE)]
            /\ fault' = [fault EXCEPT ![p] = TRUE]
            /\ UNCHANGED file
       ELSE /\ pc' = [pc EXCEPT ![p] = "save_write"]
            /\ file' = Truncated
            /\ UNCHANGED <<out, fault>>
    /\ UNCHANGED <<entry, cmd, mem, ret, loaded, rows, file0, writer>>
    /\ UNCHANGED libVars

\* save_calendar, to_writer of main's calendar: Ok whether or not the bytes
\* reach the file (see CreateWrite)
SaveWrite(p, flushed) ==
    /\ pc[p] = "save_write"
    /\ file' = IF flushed THEN Written(file, to_writer(mem[p])) ELSE file
    /\ writer' = IF flushed THEN p ELSE writer
    /\ fault' = [fault EXCEPT ![p] = @ \/ ~flushed]
    /\ pc' = [pc EXCEPT ![p] = "done"]
    /\ out' = [out EXCEPT ![p] = @ \o AfterSave(p, TRUE)]
    /\ UNCHANGED <<entry, cmd, mem, ret, loaded, rows, file0>>
    /\ UNCHANGED libVars

----------------------------------------------------------------------------
(* Specifications *)

InitVars ==
    /\ calendar = EmptyCalendar
    /\ last = NoCall
    /\ scenario = 0
    /\ file = NoFile
    /\ pc = [p \in Procs |-> "idle"]
    /\ cmd = [p \in Procs |-> NoCmd]
    /\ mem = [p \in Procs |-> EmptyCalendar]
    /\ ret = [p \in Procs |-> FALSE]
    /\ loaded = [p \in Procs |-> NotLoaded]
    /\ out = [p \in Procs |-> <<>>]
    /\ rows = [p \in Procs |-> <<>>]
    /\ file0 = [p \in Procs |-> NoFile]
    /\ fault = [p \in Procs |-> FALSE]
    /\ writer = 0

Init ==
    /\ entry \in {"calendar", "main"}
    /\ InitVars

InitIntersects ==
    /\ entry = "intersects"
    /\ InitVars

\* files that sequential invocations leave behind: none, the file after
\* add then delete 0, and the file after one add
ConcurrentFiles ==
    {NoFile, to_writer(EmptyCalendar)}
    \cup {to_writer(Calendar(<<Schedule(0, subject, 0, 1)>>)) : subject \in Subjects}

InitConcurrent ==
    /\ entry = "concurrent"
    /\ calendar = EmptyCalendar
    /\ last = NoCall
    /\ scenario = 0
    /\ file \in ConcurrentFiles
    /\ pc = [p \in Procs |-> "idle"]
    /\ cmd = [p \in Procs |-> NoCmd]
    /\ mem = [p \in Procs |-> EmptyCalendar]
    /\ ret = [p \in Procs |-> FALSE]
    /\ loaded = [p \in Procs |-> NotLoaded]
    /\ out = [p \in Procs |-> <<>>]
    /\ rows = [p \in Procs |-> <<>>]
    /\ file0 = [p \in Procs |-> file]
    /\ fault = [p \in Procs |-> FALSE]
    /\ writer = 0

\* the commands of two invocations that run at the same time
ConcurrentCommands ==
    {c \in Commands :
        \/ c.op = "list"
        \/ c.op = "delete" /\ c.id = 0
        \/ c.op = "add" /\ <<c.start, c.end>> \in {<<0, 1>>, <<1, 2>>}}

Steps ==
    \/ \E p \in Procs, open_fails \in BOOLEAN : ReadList(p, open_fails)
    \/ \E p \in Procs, open_fails \in BOOLEAN : ReadAdd(p, open_fails)
    \/ \E p \in Procs, open_fails \in BOOLEAN : ReadDelete(p, open_fails)
    \/ \E p \in Procs, create_fails \in BOOLEAN : CreateFile(p, create_fails)
    \/ \E p \in Procs, flushed \in BOOLEAN : CreateWrite(p, flushed)
    \/ \E p \in Procs, create_fails \in BOOLEAN : SaveCreate(p, create_fails)
    \/ \E p \in Procs, flushed \in BOOLEAN : SaveWrite(p, flushed)

MainNext ==
    \/ \E c \in Commands : Start(1, c)
    \/ Steps

ConcurrentNext ==
    \/ \E p \in Procs, c \in ConcurrentCommands : Start(p, c)
    \/ Steps

IntersectsNext ==
    \E d0, d1, d2, d3 \in Days, t0, t1, t2, t3 \in Tods :
        CallIntersects(d0, t0, d1, t1, d2, t2, d3, t3)

LibNext ==
    \/ \E subject \in LibSubjects, start, end \in Times : CallAdd(subject, start, end)
    \/ \E id \in Ids : CallDelete(id)

Next == LibNext \/ MainNext

\* add_schedule and delete_schedule called directly, and invocations of main
\* that follow one another
Spec == Init /\ [][Next]_vars

\* Schedule::intersects called on two schedules
SpecIntersects == InitIntersects /\ [][IntersectsNext]_vars

\* two invocations of main that may run at the same time
SpecConcurrent == InitConcurrent /\ [][ConcurrentNext]_vars

----------------------------------------------------------------------------
(* Claims *)

ValidRange(s) == s.start < s.end

\* some instant lies in [a.start, a.end) and in [b.start, b.end)
SharesInstant(a, b) ==
    \E t \in ProbeTimes : a.start <= t /\ t < a.end /\ b.start <= t /\ t < b.end

Printed(p, message) == \E i \in 1 .. Len(out[p]) : out[p][i] = message

PairwiseDisjoint(schedules) ==
    \A i, j \in 1 .. Len(schedules) :
        i # j => ~intersects(schedules[i], schedules[j])

\* C1: for schedules a and b with a.start < a.end and b.start < b.end,
\* intersects(a, b) is true exactly when [a.start, a.end) and [b.start, b.end)
\* share an instant, that is iff a.start < b.end and b.start < a.end; it is
\* false when one ends at or before the instant the other begins, on the same
\* date or on different dates.
C1_IntersectsIffShared ==
    (last.op = "intersects" /\ ValidRange(last.a) /\ ValidRange(last.b)) =>
        /\ last.ret <=> SharesInstant(last.a, last.b)
        /\ last.ret <=> (last.a.start < last.b.end /\ last.b.start < last.a.end)
        /\ (last.a.end <= last.b.start \/ last.b.end <= last.a.start) => ~last.ret

\* two valid ranges on different dates, the first ending at the instant the
\* second begins
C1_Witness ==
    /\ last.op = "intersects" /\ ValidRange(last.a) /\ ValidRange(last.b)
    /\ last.a.end = last.b.start
    /\ DateOf(last.a.start) # DateOf(last.b.start)
    /\ ~last.ret

\* the candidate of the last add: the arguments with the id add_schedule is
\* said to give, the length of the sequence before the call
Candidate ==
    Schedule(Len(last.pre.schedules), last.a.subject, last.a.start, last.a.end)

ConflictsAt(i) == intersects(last.pre.schedules[i], Candidate)

\* C2: add_schedule on a calendar none of whose schedules intersects the
\* candidate returns true and appends exactly one schedule at the end, with
\* id = the length before the call and the subject, start and end given; the
\* earlier entries keep their values and positions. On the empty calendar it
\* succeeds for any start and end, with id 0.
C2_AddAppends ==
    /\ (last.op = "add" /\ \A i \in 1 .. Len(last.pre.schedules) : ~ConflictsAt(i)) =>
          /\ last.ret
          /\ calendar.schedules = Append(last.pre.schedules, Candidate)
    /\ (last.op = "add" /\ last.pre = EmptyCalendar) =>
          /\ last.ret
          /\ Len(calendar.schedules) = 1
          /\ calendar.schedules[1].id = 0

\* an add that succeeded on a calendar that was not empty
C2_Witness ==
    /\ last.op = "add" /\ last.ret
    /\ Len(last.pre.schedules) = 1
    /\ Len(calendar.schedules) = 2

\* C3: add_schedule with a candidate that intersects an existing schedule
\* returns false and leaves the sequence of schedules as it was.
C3_RejectedAddNoChange ==
    (last.op = "add" /\ \E i \in 1 .. Len(last.pre.schedules) : ConflictsAt(i)) =>
        /\ ~last.ret
        /\ calendar = last.pre

\* a rejected add whose candidate intersects the second schedule only
C3_Witness ==
    /\ last.op = "add" /\ ~last.ret
    /\ Len(last.pre.schedules) = 2
    /\ ~ConflictsAt(1) /\ ConflictsAt(2)
    /\ calendar = last.pre

IdsOf(cal) == [i \in 1 .. Len(cal.schedules) |-> cal.schedules[i].id]

\* delete_schedule called with each id of ids in turn
RECURSIVE DeleteEach(_, _)
DeleteEach(cal, ids) ==
    IF ids = <<>> THEN cal
    ELSE DeleteEach(delete_schedule(cal, Head(ids)).calendar, Tail(ids))

\* C4: delete_schedule(calendar, id) removes the first entry with the id and
\* no other, keeps the others in order, shortens the sequence by one and
\* returns true; with no such entry it returns false and changes nothing.
\* Deleting the id of every entry, one after another, leaves the empty sequence.
C4_DeleteFirstMatch ==
    /\ last.op = "delete" =>
          LET pre == last.pre.schedules
              now == calendar.schedules
              hits == {i \in 1 .. Len(pre) : pre[i].id = last.id}
          IN  IF hits # {}
              THEN LET first == CHOOSE i \in hits : \A j \in hits : i <= j
                   IN  /\ last.ret
                       /\ Len(now) = Len(pre) - 1
                       /\ \A k \in 1 .. Len(now) :
                              now[k] = IF k < first THEN pre[k] ELSE pre[k + 1]
              ELSE ~last.ret /\ calendar = last.pre
    /\ DeleteEach(calendar, IdsOf(calendar)) = EmptyCalendar

\* a delete of an id that two different entries carried
C4_Witness ==
    /\ last.op = "delete" /\ last.ret
    /\ Len(last.pre.schedules) = 2
    /\ last.pre.schedules[1].id = last.id
    /\ last.pre.schedules[2].id = last.id
    /\ last.pre.schedules[1] # last.pre.schedules[2]
    /\ calendar.schedules = <<last.pre.schedules[2]>>

MissingFileAdd(p) ==
    /\ pc[p] = "done" /\ cmd[p].op = "add"
    /\ file0[p].state = "missing" /\ ~fault[p]

OneScheduleIdZero(f) ==
    f.state = "json" /\ Len(f.schedules) = 1 /\ f.schedules[1].id = 0

\* C5: an add that finds no file creates the file with the empty calendar,
\* adds to an empty calendar and saves: afterwards the file holds exactly one
\* schedule, with id 0. From such a file an add that overlaps it is rejected
\* and leaves the file as it was, delete 0 leaves a file with no schedules,
\* and list on that file prints no rows. (Invocations follow one another and
\* no IO operation of the invocation fails.)
C5_AddCreatesFile ==
    entry = "main" =>
        /\ MissingFileAdd(1) =>
              /\ out[1] = <<"created", "saved">>
              /\ file = to_writer(Calendar(<<Schedule(0, cmd[1].subject,
                                                      cmd[1].start, cmd[1].end)>>))
        /\ (pc[1] = "done" /\ ~fault[1] /\ OneScheduleIdZero(file0[1])) =>
              /\ (/\ cmd[1].op = "add"
                  /\ intersects(file0[1].schedules[1],
                                Schedule(1, cmd[1].subject, cmd[1].start, cmd[1].end)))
                 => (file = file0[1] /\ out[1] = <<"add_rejected">>)
              /\ (cmd[1].op = "delete" /\ cmd[1].id = 0)
                 => (file = to_writer(EmptyCalendar) /\ Printed(1, "deleted"))
        /\ (/\ pc[1] = "done" /\ ~fault[1] /\ cmd[1].op = "list"
            /\ file0[1] = to_writer(EmptyCalendar))
           => (rows[1] = <<>> /\ out[1] = <<>>)

\* an add that found no file has finished and the file holds its schedule
C5_Witness ==
    /\ entry = "main" /\ MissingFileAdd(1)
    /\ OneScheduleIdZero(file)
    /\ Printed(1, "created") /\ Printed(1, "saved")

\* C6: every failure of a repository operation (an IO error, malformed
\* contents) comes back as an error value that the command handler turns into
\* a message; the process never crashes.
C6_NoCrash ==
    \A p \in Procs :
        /\ pc[p] # "panicked"
        /\ (pc[p] = "done" /\ ~loaded[p].ok /\ cmd[p].op \in {"list", "delete"})
           => Printed(p, "load_error")

\* C7: a command that makes no successful mutation leaves the file as it was
\* (list; an add rejected for overlap; a delete of an absent id), and
\* save_calendar runs only after add_schedule or delete_schedule returned true.
C7_NoWriteWithoutMutation ==
    /\ \A p \in Procs : pc[p] \in {"save", "save_write"} => ret[p]
    /\ entry = "main" =>
          /\ (pc[1] \in {"done", "panicked"} /\ ~ret[1]) => file = file0[1]
          /\ cmd[1].op = "list" => file = file0[1]
          /\ (pc[1] = "done" /\ loaded[1].ok /\ ~ret[1]) =>
                 /\ cmd[1].op = "add" => out[1] = <<"add_rejected">>
                 /\ cmd[1].op = "delete" => out[1] = <<"delete_failed">>

\* an add rejected for overlap with a schedule of the file
C7_Witness ==
    /\ entry = "main" /\ pc[1] = "done" /\ cmd[1].op = "add"
    /\ loaded[1].ok /\ ~ret[1]
    /\ file0[1].state = "json" /\ file = file0[1]

\* C8: after add, add, delete 0, add, each returning true, from the empty
\* calendar, two schedules of the calendar carry the same id.
C8_DuplicateIds ==
    scenario = 4 =>
        \E i, j \in 1 .. Len(calendar.schedules) :
            i # j /\ calendar.schedules[i].id = calendar.schedules[j].id

C8_Witness ==
    /\ scenario = 4
    /\ Len(calendar.schedules) = 2
    /\ calendar.schedules[1].id = 1 /\ calendar.schedules[2].id = 1

\* both invocations are adds that loaded the same calendar, returned true and
\* finished with no IO failure; p's write reached the file last
BothAdded(p, q) ==
    /\ p # q /\ pc[p] = "done" /\ pc[q] = "done"
    /\ cmd[p].op = "add" /\ cmd[q].op = "add"
    /\ loaded[p].ok /\ loaded[q].ok /\ loaded[p].calendar = loaded[q].calendar
    /\ ret[p] /\ ret[q] /\ ~fault[p] /\ ~fault[q]
    /\ writer = p /\ file.state = "json"

\* C9: when two invocations without locking both load the same calendar and
\* both adds return true, both report that the schedule was saved, and the
\* file ends as the calendar of the invocation that wrote last: the loaded
\* schedules and that invocation's schedule, not the other's.
C9_LostUpdate ==
    \A p, q \in Procs :
        BothAdded(p, q) =>
            /\ out[p] = <<"saved">> /\ out[q] = <<"saved">>
            /\ file = to_writer(mem[p])
            /\ file.schedules =
                   Append(loaded[p].calendar.schedules,
                          Schedule(Len(loaded[p].calendar.schedules),
                                   cmd[p].subject, cmd[p].start, cmd[p].end))

\* the two adds differ, and the file lacks the schedule of the first writer
C9_Witness ==
    \E p, q \in Procs :
        /\ BothAdded(p, q)
        /\ <<cmd[p].start, cmd[p].end>> # <<cmd[q].start, cmd[q].end>>
        /\ \A i \in 1 .. Len(file.schedules) :
               <<file.schedules[i].start, file.schedules[i].end>>
                   # <<cmd[q].start, cmd[q].end>>

\* C10: whatever add_schedule and delete_schedule calls were made from the
\* empty calendar (ranges with start >= end included), no two entries of the
\* calendar intersect; nor do two entries of the calendar in the file, after
\* any sequence of invocations that follow one another from no file.
C10_PairwiseDisjoint ==
    /\ PairwiseDisjoint(calendar.schedules)
    /\ file.state = "json" => PairwiseDisjoint(file.schedules)
    /\ \A p \in Procs : PairwiseDisjoint(mem[p].schedules)

\* a calendar of two entries, one of them a range with start >= end
C10_Witness ==
    /\ Len(calendar.schedules) = 2
    /\ ~ValidRange(calendar.schedules[1])
    /\ ValidRange(calendar.schedules[2])
    /\ last.op = "add"

====
